---- MODULE Spec2Model ----
(***************************************************************************)
(* Model of deploy-script.sh (current revision, src/deploy-script.sh lines *)
(* 1-413): one deployment run is the sequence of stages of main(), run     *)
(* under `set -e` with `trap cleanup EXIT`.  The file system (scratch      *)
(* directory, live directory, backup directory), the supervisors and the   *)
(* application process persist from one run to the next.                   *)
(***************************************************************************)
EXTENDS Integers, Sequences, FiniteSets, TLC

\* ------------------------------------------------------------------ bounds
\* Number of deployment runs explored in one behaviour of Spec.
MaxRuns == 1

\* ------------------------------------------------------- program constants
\* `[ "$FILE_SIZE" -lt 1024 ]`
MinFileSize == 1024
\* `tail -n +6`: the five newest backup archives are kept.
KeepBackups == 5
\* VERBOSE_LOGGING=true
VERBOSE_LOGGING == TRUE

\* ------------------------------------------------------------- file names
HiddenNames == {".env"}
DirNames == {"repo-sha", "node_modules"}
Names == {"index.js", "package.json", "docker-compose.yml", ".env", "repo-sha",
          "node_modules"}

\* The glob `*` skips names that start with a dot; `.[!.]*` matches them.
Visible(dir) == dir \ HiddenNames
Hidden(dir) == dir \cap HiddenNames

\* --------------------------------------------------- what a fetch can bring
\* No file at $TEMP_DIR/release.tar.gz.
NoFile == [size |-> 0, kind |-> "absent", top |-> {}, inner |-> {}, scripts |-> {}]

\* A fetched file: its size in bytes, what its bytes are (kind), the
\* top-level entries of the archive (top), the entries inside its single
\* wrapping directory (inner), and the scripts its package.json declares.
Flat(sz, k, entries, scr) ==
    [size |-> sz, kind |-> k, top |-> entries, inner |-> {}, scripts |-> scr]

Wrapped(sz, k, entries, scr) ==
    [size |-> sz, kind |-> k, top |-> {"repo-sha"}, inner |-> entries, scripts |-> scr]

Fetchable ==
    { Flat(500, "html", {}, {}),
      Flat(2048, "html", {}, {}),
      Flat(2048, "tar", {"index.js", "package.json"}, {}),
      Flat(1023, "gzip", {"index.js"}, {}),
      Flat(1024, "gzip", {"index.js", "package.json"}, {"build"}),
      Flat(2048, "gzip", {"index.js", "package.json", "docker-compose.yml", ".env"},
           {"migrate"}),
      Flat(2048, "gzip", {".env"}, {}),
      Wrapped(2048, "gzip", {"index.js", "package.json"}, {"build"}),
      Flat(2048, "gzip_corrupt", {"index.js", "package.json"}, {}),
      Flat(2048, "bzip2", {"index.js", "package.json"}, {}) }

Urls == {"", "https://host/app.tar.gz"}
Tags == {"", "v1"}

VARIABLES
    pc,            \* the stage main() is at; "idle" before the first run, "done" after exit
    run,           \* number of runs started
    TARBALL_URL,   \* $1
    TAG_NAME,      \* $2
    USE_LOG_FILE,  \* whether `touch "$LOG_FILE"` succeeded
    tmpExists,     \* whether $TEMP_DIR exists
    dl,            \* the file $TEMP_DIR/release.tar.gz (NoFile when absent)
    extracted,     \* [exists, top, inner, scripts]: $TEMP_DIR/extracted
    EXTRACTED_DIR, \* the content root: a path below $TEMP_DIR, <<>> while unset
    exitStatus,    \* exit status of the run, -1 while it runs
    errorMsg,      \* the last message logged with error(), "none" if none
    events,        \* the commands this run has executed, in order
    FILE_SIZE,     \* what stat printed (0 when it failed), -1 while unset
    FILE_TYPE,     \* what `file -b` printed ("unknown" when it failed), <<>> while unset
    probed,        \* the ports the health check has probed, in order
    answering,     \* the ports that answer a probe of this run's health check
    HEALTH_CHECK_PASSED,
    projExists,    \* whether $PROJECT_DIR exists
    live,          \* the entries of $PROJECT_DIR
    liveScripts,   \* the scripts declared by $PROJECT_DIR/package.json
    backups,       \* the backup archives in $BACKUP_DIR, newest (by mtime) first
    sameSecond,    \* the clock still shows the second the newest archive is named after
    pm2Installed,  \* `command -v pm2`
    pm2Listed,     \* `pm2 list | grep -q "$APP_NAME"`
    unitExists,    \* systemd knows a unit local-chat.service
    procs,         \* who currently runs an instance of the application
    created,       \* history: the ids of all backup archives ever written
    nonEmptyRuns,  \* history: the runs whose backup stage found a non-empty live directory
    installed,     \* history: what each completed copy of files left in $PROJECT_DIR,
                   \* which hidden entries it copied, and the entries of the content root
    handled,       \* the webhook requests the server has answered, in order
    deploys,       \* the stage of each deploy process the server has spawned
    scratch,       \* $TEMP_DIR as the deploy processes share it
    liveFrom       \* the deploy process whose content $PROJECT_DIR holds

runVars == <<TARBALL_URL, TAG_NAME, USE_LOG_FILE>>
scratchVars == <<tmpExists, dl, extracted>>
liveVars == <<projExists, live, liveScripts>>
backupVars == <<backups, sameSecond, created, nonEmptyRuns>>
superVars == <<pm2Installed, pm2Listed, unitExists, procs>>

healthVars == <<FILE_SIZE, FILE_TYPE, probed, answering, HEALTH_CHECK_PASSED>>

\* The webhook server and the deploy processes it spawns.
webVars == <<handled, deploys, scratch, liveFrom>>

\* One run of the deploy script and the host it runs on.
deployVars ==
    <<pc, run, runVars, scratchVars, EXTRACTED_DIR, exitStatus, errorMsg, events, healthVars,
      liveVars, backupVars, superVars, installed>>

vars == <<deployVars, webVars>>

\* $TEMP_DIR does not exist.  When it exists, file and extracted name the
\* deploy process that wrote release.tar.gz and the one whose archive was
\* unpacked into extracted/ (0: not there).
NoScratch == [exists |-> FALSE, file |-> 0, extracted |-> 0]

NoExtract == [exists |-> FALSE, top |-> {}, inner |-> {}, scripts |-> {}]

\* ---------------------------------------------------------------- cleanup
\* cleanup(): whether $TEMP_DIR exists after `[ -d ] && rm -rf`.
cleanup(exists) == IF exists THEN FALSE ELSE exists

\* Mutant: the EXIT trap is not installed.
OnExit_NoTrap(exists) == exists

\* `trap cleanup EXIT`: runs on every exit of the script.
OnExit(exists) == cleanup(exists)

\* `exit N` (explicit, or by `set -e`): the EXIT trap runs, the run is over.
\* The ERR trap is not inherited by main() (no `set -E`), so a command that
\* fails inside main() ends the script with that command's status.
Exit(status, msg, dirBefore) ==
    /\ pc' = "done"
    /\ exitStatus' = status
    /\ errorMsg' = msg
    /\ tmpExists' = OnExit(dirBefore)
    /\ dl' = IF OnExit(dirBefore) THEN dl ELSE NoFile
    /\ extracted' = IF OnExit(dirBefore) THEN extracted ELSE NoExtract

\* `error ...; cleanup; exit 1`
Fatal(msg) == Exit(1, msg, cleanup(tmpExists))

\* A command fails under `set -e`: the script exits with its status (here 2).
ErrExit == Exit(2, errorMsg, tmpExists)

\* ------------------------------------------------------------ initial state
\* What a host can look like before a run: the live directory absent, empty
\* or holding an earlier deployment; archives left by earlier runs; the
\* application run by one supervisor, by hand, or not at all.
OldContent == {"index.js", "package.json", "node_modules"}

ComposeContent == {"index.js", "docker-compose.yml", ".env"}

\* The application runs under pm2.
Pm2Host == <<TRUE, TRUE, FALSE, {"pm2"}, OldContent>>

\* <<pm2Installed, pm2Listed, unitExists, procs, live>>
Hosts ==
    { Pm2Host,
      <<TRUE, FALSE, FALSE, {}, {}>>,
      <<FALSE, FALSE, TRUE, {"systemd"}, OldContent>>,
      <<TRUE, FALSE, TRUE, {"systemd"}, OldContent>>,
      <<FALSE, FALSE, FALSE, {"compose"}, ComposeContent>>,
      <<FALSE, FALSE, FALSE, {"manual"}, OldContent>>,
      <<FALSE, FALSE, FALSE, {}, {}>> }

\* The archive with id i (ids grow with time).
Archive(i, dir, ok) == [id |-> i, content |-> dir, complete |-> ok]

\* k archives of earlier runs, newest first.
OldBackups(k) == [i \in 1..k |-> Archive(k + 1 - i, OldContent, TRUE)]

\* <<number of archives earlier runs left, whether the newest of them was
\* written in the current second>>
Histories ==
    { <<0, FALSE>>, <<KeepBackups - 1, FALSE>>, <<KeepBackups, FALSE>>,
      <<KeepBackups, TRUE>> }

Init ==
    /\ pc = "idle"
    /\ run = 0
    /\ TARBALL_URL = ""
    /\ TAG_NAME = ""
    /\ USE_LOG_FILE = FALSE
    /\ tmpExists = FALSE
    /\ dl = NoFile
    /\ extracted = NoExtract
    /\ EXTRACTED_DIR = <<>>
    /\ exitStatus = -1
    /\ errorMsg = "none"
    /\ events = <<>>
    /\ FILE_SIZE = -1
    /\ FILE_TYPE = <<>>
    /\ probed = <<>>
    /\ answering = {}
    /\ HEALTH_CHECK_PASSED = FALSE
    /\ \E h \in Hosts, past \in Histories :
        /\ pm2Installed = h[1]
        /\ pm2Listed = h[2]
        /\ unitExists = h[3]
        /\ procs = h[4]
        /\ live = h[5]
        /\ backups = OldBackups(past[1])
        /\ created = 1..past[1]
        /\ nonEmptyRuns = past[1]
        /\ sameSecond = past[2]
        /\ (past[1] > 0 => h = Pm2Host)
    /\ projExists \in BOOLEAN
    /\ (live # {} \/ pm2Installed => projExists)
    /\ liveScripts = {}
    /\ installed = <<>>
    /\ handled = <<>>
    /\ deploys = <<>>
    /\ scratch = NoScratch
    /\ liveFrom = 0

hostVars == <<liveVars, backupVars, superVars>>

\* Lines 19-38, 83-101: the script starts, checks its arguments and creates
\* the scratch directory.
StartRun(limit) ==
    /\ pc \in {"idle", "done"}
    /\ run < limit
    /\ run' = run + 1
    /\ \E url \in Urls, tag \in Tags, logOk \in BOOLEAN, mkdirOk \in BOOLEAN :
        /\ TARBALL_URL' = url
        /\ TAG_NAME' = tag
        /\ USE_LOG_FILE' = logOk
        /\ EXTRACTED_DIR' = <<>>
        /\ FILE_SIZE' = -1
        /\ FILE_TYPE' = <<>>
        /\ probed' = <<>>
        /\ answering' = {}
        /\ HEALTH_CHECK_PASSED' = FALSE
        /\ installed' = <<>>
        /\ IF url = "" \/ tag = ""
           THEN /\ events' = <<>>
                /\ Exit(1, "missing_args", tmpExists)
           ELSE IF ~mkdirOk
           THEN /\ events' = <<"mkdir_tmp_failed">>
                /\ Exit(2, "none", tmpExists)
           ELSE /\ events' = <<"mkdir_tmp">>
                /\ pc' = "download"
                /\ exitStatus' = -1
                /\ errorMsg' = "none"
                /\ tmpExists' = TRUE
                /\ UNCHANGED <<dl, extracted>>
    /\ UNCHANGED <<webVars, hostVars>>

\* ------------------------------------------------------------------- fetch
\* Lines 103-138.  With VERBOSE_LOGGING and USE_LOG_FILE the transport runs in
\* `curl ... 2>&1 | tee -a "$LOG_FILE" || {...}`: the status of a pipeline is
\* the status of its last command (no pipefail), so the `||` branch is taken
\* only when tee fails, which the model takes never to happen.
Piped == VERBOSE_LOGGING /\ USE_LOG_FILE

\* The status that `||` sees after the transport ended with status ok.
TransportStatus(ok) == IF Piped THEN TRUE ELSE ok

Download ==
    /\ pc = "download"
    /\ \E curl \in BOOLEAN, wget \in BOOLEAN, ok \in BOOLEAN, f \in Fetchable \cup {NoFile} :
        \* a transport that succeeded wrote the file; a failed one wrote
        \* nothing, an error page or a truncated archive
        /\ (ok => f # NoFile)
        /\ (~ok => f.kind \in {"absent", "html", "gzip_corrupt"})
        /\ IF ~curl /\ ~wget
           THEN /\ events' = Append(events, "no_transport")
                /\ Fatal("no_transport")
           ELSE IF ~TransportStatus(ok)
           THEN /\ events' = Append(events, "fetch_failed")
                /\ Fatal("download_failed")
           ELSE /\ events' = Append(events, IF ok THEN "fetch" ELSE "fetch_failed")
                /\ dl' = f
                /\ pc' = "verify_exists"
                /\ UNCHANGED <<tmpExists, extracted, exitStatus, errorMsg>>
    /\ UNCHANGED <<installed, webVars, run, runVars, healthVars, EXTRACTED_DIR, hostVars>>

\* Lines 107-127: curl and wget are given no limit of time (no --max-time, no
\* --speed-limit, no `timeout`), and bash waits for the command it started.  A
\* server that stops sending without closing the connection keeps the
\* transport, and the script with it, waiting: the stage "stalled" has no
\* successor.
DownloadStalls ==
    /\ pc = "download"
    /\ pc' = "stalled"
    /\ UNCHANGED <<installed, webVars, run, runVars, scratchVars, EXTRACTED_DIR, exitStatus, errorMsg,
                   events, healthVars, hostVars>>

\* ---------------------------------------------------------------- validate
\* Lines 143-148: `[ ! -f "$TEMP_DIR/release.tar.gz" ]`.
VerifyExists ==
    /\ pc = "verify_exists"
    /\ IF dl = NoFile
       THEN /\ events' = Append(events, "exists_failed")
            /\ Fatal("no_file")
       ELSE /\ events' = Append(events, "exists_ok")
            /\ pc' = "verify_size"
            /\ UNCHANGED <<scratchVars, exitStatus, errorMsg>>
    /\ UNCHANGED <<installed, webVars, run, runVars, healthVars, EXTRACTED_DIR, hostVars>>

\* Line 150: FILE_SIZE=$(stat -f%z ... || stat -c%s ... || echo "0").
StatSize(f, statOk) == IF statOk THEN f.size ELSE 0

\* Mutant: the comparison is off by one.
TooSmall_OffByOne(size) == size < MinFileSize - 1

\* Line 156: `[ "$FILE_SIZE" -lt 1024 ]`.
TooSmall(size) == size < MinFileSize

\* Lines 150-168.
VerifySize ==
    /\ pc = "verify_size"
    /\ \E statOk \in BOOLEAN :
        /\ FILE_SIZE' = StatSize(dl, statOk)
        /\ IF TooSmall(StatSize(dl, statOk))
           THEN /\ events' = Append(events, "size_failed")
                /\ Fatal("too_small")
           ELSE /\ events' = Append(events, "size_ok")
                /\ pc' = "verify_type"
                /\ UNCHANGED <<scratchVars, exitStatus, errorMsg>>
    /\ UNCHANGED <<installed, webVars, run, runVars, FILE_TYPE, probed, answering, HEALTH_CHECK_PASSED, EXTRACTED_DIR,
                   hostVars>>

\* What `file -b` prints for a file, as words.
Describe(kind) ==
    CASE kind \in {"gzip", "gzip_corrupt"} -> <<"gzip", "compressed", "data">>
      [] kind = "bzip2" -> <<"bzip2", "compressed", "data">>
      [] kind = "tar" -> <<"POSIX", "tar", "archive">>
      [] kind = "html" -> <<"HTML", "document">>
      [] OTHER -> <<"data">>

\* Line 171: FILE_TYPE=$(file -b ... 2>/dev/null || echo "unknown").
FileType(f, fileOk) == IF fileOk THEN Describe(f.kind) ELSE <<"unknown">>

\* Line 177: `echo "$FILE_TYPE" | grep -qi "gzip\|compressed"`.
AcceptedType(desc) == \E i \in 1..Len(desc) : desc[i] \in {"gzip", "compressed"}

\* Lines 170-189.
VerifyType ==
    /\ pc = "verify_type"
    /\ \E fileOk \in BOOLEAN :
        /\ FILE_TYPE' = FileType(dl, fileOk)
        /\ IF ~AcceptedType(FileType(dl, fileOk))
           THEN /\ events' = Append(events, "type_failed")
                /\ Fatal("wrong_type")
           ELSE /\ events' = Append(events, "type_ok")
                /\ pc' = "verify_gzip"
                /\ UNCHANGED <<scratchVars, exitStatus, errorMsg>>
    /\ UNCHANGED <<installed, webVars, run, runVars, FILE_SIZE, probed, answering, HEALTH_CHECK_PASSED, EXTRACTED_DIR,
                   hostVars>>

\* `gzip -t`: the stream decompresses and its checksum matches.
GzipIntact(f) == f.kind = "gzip"

\* Mutant: the status of `gzip -t` is not looked at.
GzipStage_Unchecked(gzip, f) == IF ~gzip THEN "gzip_skipped" ELSE "gzip_ok"

\* Lines 191-201: the check runs only `if command -v gzip`.
GzipStage(gzip, f) ==
    IF ~gzip THEN "gzip_skipped"
    ELSE IF GzipIntact(f) THEN "gzip_ok" ELSE "gzip_failed"

\* Lines 191-203.  `GZIP_OUTPUT=$(gzip -t ...)` is a simple command: when
\* gzip fails, `set -e` ends the script there, before `if [ $? -ne 0 ]`.
VerifyGzip ==
    /\ pc = "verify_gzip"
    /\ \E gzip \in BOOLEAN :
        /\ events' = Append(events, GzipStage(gzip, dl))
        /\ IF GzipStage(gzip, dl) = "gzip_failed"
           THEN ErrExit
           ELSE /\ pc' = "extract"
                /\ UNCHANGED <<scratchVars, exitStatus, errorMsg>>
    /\ UNCHANGED <<installed, webVars, run, runVars, healthVars, EXTRACTED_DIR, hostVars>>

\* ----------------------------------------------------------------- extract
\* tar detects the compression itself: it reads gzip and bzip2 archives.
TarReads(f) == f.kind \in {"gzip", "bzip2"}

\* Line 252: EXTRACTED_DIR="$TEMP_DIR/extracted", whatever was extracted.
ContentRoot(top) == <<"extracted">>

\* The entries of the directory a content root names.
RootEntries(ex, root) == IF Len(root) = 1 THEN ex.top ELSE ex.inner

\* The scripts of the package.json directly inside the content root.
RootScripts(ex, root) ==
    IF Len(root) = 1 /\ ex.inner # {} THEN {} ELSE ex.scripts

\* Lines 205-266.  `TAR_OUTPUT=$(tar -xvf ...)` is a simple command: when tar
\* fails, `set -e` ends the script there; lines 218-240 are never reached.
Extract ==
    /\ pc = "extract"
    /\ \E tarOk \in BOOLEAN :
        IF tarOk /\ TarReads(dl)
        THEN /\ events' = Append(events, "tar_x")
             /\ extracted' = [exists |-> TRUE, top |-> dl.top, inner |-> dl.inner,
                              scripts |-> dl.scripts]
             /\ EXTRACTED_DIR' = ContentRoot(dl.top)
             /\ pc' = "project_dir"
             /\ UNCHANGED <<tmpExists, dl, exitStatus, errorMsg>>
        ELSE /\ events' = Append(events, "tar_x_failed")
             /\ ErrExit
             /\ UNCHANGED EXTRACTED_DIR
    /\ UNCHANGED <<installed, webVars, run, runVars, healthVars, hostVars>>

\* Mutant: the backup stage is left out.
AfterProjectDir_NoBackup == "stop"

\* Line 274: the backup stage follows.
AfterProjectDir == "backup"

\* Lines 268-272: `mkdir -p "$PROJECT_DIR"` when it does not exist.
EnsureProjectDir ==
    /\ pc = "project_dir"
    /\ \E mkdirOk \in BOOLEAN :
        IF projExists \/ mkdirOk
        THEN /\ projExists' = TRUE
             /\ events' = IF projExists THEN events ELSE Append(events, "mkdir_project")
             /\ pc' = AfterProjectDir
             /\ UNCHANGED <<scratchVars, exitStatus, errorMsg>>
        ELSE /\ events' = Append(events, "mkdir_project_failed")
             /\ ErrExit
             /\ UNCHANGED projExists
    /\ UNCHANGED <<installed, webVars, run, runVars, healthVars, EXTRACTED_DIR, live, liveScripts, backupVars, superVars>>

\* ------------------------------------------------------------------ backup
Min(a, b) == IF a < b THEN a ELSE b

\* `tar -czf "$BACKUP_DIR/${APP_NAME}_backup_${TIMESTAMP}.tar.gz"`: the name
\* has the resolution of one second, so an archive written in the second of
\* the newest one replaces it.
WriteArchive(seq, a, same) ==
    IF same /\ seq # <<>> THEN <<a>> \o Tail(seq) ELSE <<a>> \o seq

\* Mutant: one archive too many is kept (`tail -n +7`).
Prune_KeepSix(seq) == SubSeq(seq, 1, Min(KeepBackups + 1, Len(seq)))

\* Mutant: the oldest archives are kept (`ls -tr`).
Prune_KeepOldest(seq) == SubSeq(seq, Len(seq) - Min(KeepBackups, Len(seq)) + 1, Len(seq))

\* Line 282: `ls -t ... | tail -n +6 | xargs -r rm` removes all but the
\* KeepBackups newest archives.
Prune(seq) == SubSeq(seq, 1, Min(KeepBackups, Len(seq)))

\* Mutant: the stop stage is left out.
AfterBackup_NoStop == "clear"

\* Mutant: the archive is unpacked after the backup stage.
AfterBackup_Extract == "extract"

\* Line 288: the stop stage follows the backup stage.
AfterBackup == "stop"

\* Lines 274-286.  Only tar is followed by `|| warning`: when `mkdir -p` fails,
\* or rm (the last command of the prune pipeline) fails, `set -e` ends the
\* script.  A tar that fails may or may not leave a file behind.
Backup ==
    /\ pc = "backup"
    /\ IF live # {}
       THEN \E mkdirOk \in BOOLEAN, tarOk \in BOOLEAN, left \in BOOLEAN, rmOk \in BOOLEAN :
            LET a == Archive(KeepBackups + run, live, tarOk)
                written == tarOk \/ left
                replaced == IF written /\ sameSecond /\ backups # <<>>
                            THEN {Head(backups).id} ELSE {}
                afterTar == IF written THEN WriteArchive(backups, a, sameSecond)
                            ELSE backups
                rmRuns == Len(afterTar) > KeepBackups
            IN  /\ nonEmptyRuns' = nonEmptyRuns + 1
                /\ IF ~mkdirOk
                   THEN /\ events' = Append(events, "mkdir_backup_failed")
                        /\ ErrExit
                        /\ UNCHANGED <<backups, sameSecond, created>>
                   ELSE /\ created' = IF written THEN (created \ replaced) \cup {a.id}
                                      ELSE created
                        /\ sameSecond' = IF written THEN TRUE ELSE sameSecond
                        /\ IF rmRuns /\ ~rmOk
                           THEN /\ events' = events \o
                                     <<"mkdir_backup", IF tarOk THEN "tar_c" ELSE "tar_c_failed",
                                       "prune_failed">>
                                /\ backups' = afterTar
                                /\ ErrExit
                           ELSE /\ events' = events \o
                                     <<"mkdir_backup", IF tarOk THEN "tar_c" ELSE "tar_c_failed",
                                       "prune">>
                                /\ backups' = Prune(afterTar)
                                /\ pc' = AfterBackup
                                /\ UNCHANGED <<scratchVars, exitStatus, errorMsg>>
       ELSE /\ events' = Append(events, "no_backup")
            /\ pc' = AfterBackup
            /\ UNCHANGED <<scratchVars, exitStatus, errorMsg, backupVars>>
    /\ UNCHANGED <<installed, webVars, run, runVars, healthVars, EXTRACTED_DIR, liveVars, superVars>>

\* Time passes between two runs: the clock leaves the second of the newest archive.
Tick ==
    /\ pc \in {"idle", "done"}
    /\ sameSecond
    /\ sameSecond' = FALSE
    /\ UNCHANGED <<installed, webVars, pc, run, runVars, scratchVars, EXTRACTED_DIR, exitStatus, errorMsg,
                   events, healthVars, liveVars, backups, created, nonEmptyRuns, superVars>>

\* -------------------------------------------------------------------- stop
\* `systemctl is-active --quiet "$APP_NAME"`.
UnitActive == "systemd" \in procs

\* Lines 290-296: the supervisor the if/elif chain of the stop stage picks.
StopSupervisor ==
    IF pm2Installed /\ pm2Listed THEN "pm2"
    ELSE IF UnitActive THEN "systemd"
    ELSE IF "docker-compose.yml" \in live THEN "compose"
    ELSE "none"

\* Lines 288-296.  Each stop command is followed by `|| warning "..."`.
StopApp ==
    /\ pc = "stop"
    /\ \E ok \in BOOLEAN :
        LET sup == StopSupervisor
        IN  IF sup = "none"
            THEN /\ events' = Append(events, "stop_none")
                 /\ pc' = "clear"
                 /\ UNCHANGED <<procs, scratchVars, exitStatus, errorMsg>>
            ELSE IF ok
            THEN /\ events' = Append(events, "stop_" \o sup)
                 /\ procs' = procs \ {sup}
                 /\ pc' = "clear"
                 /\ UNCHANGED <<scratchVars, exitStatus, errorMsg>>
            ELSE /\ events' = Append(events, "stop_failed_" \o sup)
                 /\ pc' = "clear"
                 /\ UNCHANGED <<procs, scratchVars, exitStatus, errorMsg>>
    /\ UNCHANGED <<installed, webVars, run, runVars, healthVars, EXTRACTED_DIR, liveVars, backupVars, pm2Installed,
                   pm2Listed, unitExists>>

\* ----------------------------------------------------------------- install
\* Lines 298-302: `rm -rf "$PROJECT_DIR"/*` and `rm -rf "$PROJECT_DIR"/.[!.]*`.
\* A failing rm ends the script under `set -e` with the directory as it was.
\* Mutant: the old entries are set aside in a directory of the live directory
\* instead of being deleted.
Cleared_SetAside(dir) == IF dir = {} THEN {} ELSE {"repo-sha"}

\* The entries left after the two rm commands: `*` names the visible entries,
\* `.[!.]*` the hidden ones.
Cleared(dir) == (dir \ Visible(dir)) \ Hidden(dir)

ClearProject ==
    /\ pc = "clear"
    /\ \E rmOk \in BOOLEAN :
        IF rmOk \/ live = {}
        THEN /\ events' = Append(events, "rm_live")
             /\ live' = Cleared(live)
             /\ liveScripts' = {}
             /\ pc' = "copy"
             /\ UNCHANGED <<scratchVars, exitStatus, errorMsg>>
        ELSE /\ events' = Append(events, "rm_live_failed")
             /\ ErrExit
             /\ UNCHANGED <<live, liveScripts>>
    /\ UNCHANGED <<installed, webVars, run, runVars, healthVars, EXTRACTED_DIR, projExists, backupVars, superVars>>

\* What a failing `cp -r` can have copied of the entries it was given:
\* nothing, or all but index.js.
PartialCopies(entries) == {{}, entries \ {"index.js"}}

\* Lines 304-316.  `cp -r "$EXTRACTED_DIR"/*` fails when some entry cannot be
\* copied, and also when there is no visible entry (the pattern stays as it
\* is and names no file).  The copy of the hidden entries ends in
\* `2>/dev/null || true`: its failure is not seen.
\* The entries of the target after `cp -r` has put the entries vis and hid
\* into the directory dir.
Copied(dir, vis, hid) == dir \cup vis \cup hid

CopyFiles ==
    /\ pc = "copy"
    /\ LET src == RootEntries(extracted, EXTRACTED_DIR)
           scr == RootScripts(extracted, EXTRACTED_DIR)
           manifest(dir) == IF "package.json" \in dir THEN scr ELSE {}
       IN  \E vis \in PartialCopies(Visible(src)) \cup {Visible(src)},
              hid \in PartialCopies(Hidden(src)) \cup {Hidden(src)} :
            IF vis # Visible(src) \/ Visible(src) = {}
            THEN /\ events' = Append(events, "cp_failed")
                 /\ live' = Copied(live, vis, {})
                 /\ liveScripts' = manifest(vis)
                 /\ installed' = installed
                 /\ Fatal("copy_failed")
            ELSE /\ events' = events \o
                      (IF Hidden(src) = {} THEN <<"cp">>
                       ELSE IF hid = Hidden(src) THEN <<"cp", "cp_hidden">>
                       ELSE <<"cp", "cp_hidden_failed">>)
                 /\ live' = Copied(live, vis, hid)
                 /\ liveScripts' = manifest(vis)
                 /\ installed' = Append(installed, [live |-> Copied(live, vis, hid), hidden |-> hid,
                                                   root |-> src])
                 /\ pc' = "deps"
                 /\ UNCHANGED <<scratchVars, exitStatus, errorMsg>>
    /\ UNCHANGED <<webVars, run, runVars, healthVars, EXTRACTED_DIR, projExists, backupVars, superVars>>

\* Mutant: a failed installation is only a warning (`|| warning "..."`).
DepsFailed_Warn ==
    /\ pc' = "migrate"
    /\ UNCHANGED <<scratchVars, exitStatus, errorMsg>>

\* Lines 327-331: `{ error "Failed to install dependencies"; cleanup; exit 1; }`.
DepsFailed == Fatal("deps_failed")

\* Lines 324-338: `npm ci --omit=dev || npm install --omit=dev || { ...; exit 1; }`.
InstallDeps ==
    /\ pc = "deps"
    /\ \E npmOk \in BOOLEAN :
        IF "package.json" \notin live
        THEN /\ events' = Append(events, "no_package_json")
             /\ pc' = "migrate"
             /\ UNCHANGED <<live, scratchVars, exitStatus, errorMsg>>
        ELSE IF npmOk
        THEN /\ events' = Append(events, "npm_install")
             /\ live' = live \cup {"node_modules"}
             /\ pc' = "migrate"
             /\ UNCHANGED <<scratchVars, exitStatus, errorMsg>>
        ELSE /\ events' = Append(events, "npm_install_failed")
             /\ DepsFailed
             /\ UNCHANGED live
    /\ UNCHANGED <<installed, webVars, run, runVars, healthVars, EXTRACTED_DIR, projExists, liveScripts, backupVars,
                   superVars>>

\* Mutant: a failed migration stops the pipeline.
AfterMigrate_Stop(ok) == IF ok THEN "start" ELSE "migrate"

\* Line 343: `npm run migrate || warning "Migration failed"`: the start stage
\* follows, whatever the status of the migration.
AfterMigrate(ok) == "start"

\* Lines 340-344.
Migrate ==
    /\ pc = "migrate"
    /\ \E ok \in BOOLEAN :
        IF "package.json" \in live /\ "migrate" \in liveScripts
        THEN /\ events' = Append(events, IF ok THEN "migrate" ELSE "migrate_failed")
             /\ pc' = AfterMigrate(ok)
        ELSE /\ events' = events
             /\ pc' = "start"
    /\ UNCHANGED <<installed, webVars, run, runVars, healthVars, scratchVars, EXTRACTED_DIR, exitStatus, errorMsg,
                   hostVars>>

\* ------------------------------------------------------------------- start
\* Mutant: pm2 is tried when nothing else matches.
StartSupervisor_TryPm2 ==
    IF pm2Installed THEN "pm2"
    ELSE IF unitExists THEN "systemd"
    ELSE IF "docker-compose.yml" \in live THEN "compose"
    ELSE "pm2"

\* Lines 349-374: the supervisor the if/elif chain of the start stage picks.
StartSupervisor ==
    IF pm2Installed THEN "pm2"
    ELSE IF unitExists THEN "systemd"
    ELSE IF "docker-compose.yml" \in live THEN "compose"
    ELSE "none"

\* Lines 346-374.  The start commands (lines 352, 357-361, 366, 370) stand
\* alone, so under `set -e` a failing one ends the script.  `pm2 start
\* index.js` needs the file it is given.
StartApp ==
    /\ pc = "start"
    /\ \E cmdOk \in BOOLEAN :
        LET sup == StartSupervisor
            ok == cmdOk /\ (sup = "pm2" /\ ~pm2Listed => "index.js" \in live)
        IN  IF sup = "none"
            THEN /\ events' = Append(events, "start_none")
                 /\ pc' = "health"
                 /\ UNCHANGED <<superVars, scratchVars, exitStatus, errorMsg>>
            ELSE IF ok
            THEN /\ events' = Append(events, "start_" \o sup)
                 /\ procs' = procs \cup {sup}
                 /\ pm2Listed' = (pm2Listed \/ sup = "pm2")
                 /\ pc' = "health"
                 /\ UNCHANGED <<pm2Installed, unitExists, scratchVars, exitStatus, errorMsg>>
            ELSE /\ events' = Append(events, "start_failed_" \o sup)
                 /\ ErrExit
                 /\ UNCHANGED superVars
    /\ UNCHANGED <<installed, webVars, run, runVars, healthVars, EXTRACTED_DIR, liveVars, backupVars>>

\* ------------------------------------------------------------ health check
\* `for PORT_NUM in 3000 8080 4000 5000`.
Ports == <<3000, 8080, 4000, 5000>>

\* Mutant: the loop has no `break`.
Probed_NoBreak(i, listening) == SubSeq(Ports, i, Len(Ports))

\* The ports probed, in order, up to the first that answers (`break`).
RECURSIVE Probed(_, _)
Probed(i, listening) ==
    IF i > Len(Ports) THEN <<>>
    ELSE IF Ports[i] \in listening THEN <<Ports[i]>>
    ELSE <<Ports[i]>> \o Probed(i + 1, listening)

\* Lines 376-394: after `sleep 5`, curl probes the ports; without curl
\* nothing is probed.
HealthCheck ==
    /\ pc = "health"
    /\ \E curl \in BOOLEAN, listening \in {{}, {8080, 5000}} :
        LET probes == IF curl THEN Probed(1, listening) ELSE <<>>
            passed == probes # <<>> /\ probes[Len(probes)] \in listening
        IN  /\ (~curl => listening = {})
            /\ answering' = listening
            /\ probed' = probes
            /\ HEALTH_CHECK_PASSED' = passed
            /\ events' = events \o
                 <<"sleep", IF passed THEN "health_passed" ELSE "health_unverified">>
    /\ sameSecond' = FALSE
    /\ pc' = "finish"
    /\ UNCHANGED <<installed, webVars, run, runVars, FILE_SIZE, FILE_TYPE, scratchVars, EXTRACTED_DIR,
                   exitStatus, errorMsg, liveVars, backups, created, nonEmptyRuns,
                   superVars>>

\* Lines 396-404 and 413: cleanup, the closing log lines, main returns and the
\* script ends with status 0.
Finish ==
    /\ pc = "finish"
    /\ events' = Append(events, "cleanup")
    /\ Exit(0, errorMsg, cleanup(tmpExists))
    /\ UNCHANGED <<installed, webVars, run, runVars, healthVars, EXTRACTED_DIR, hostVars>>

Next ==
    \/ StartRun(MaxRuns)
    \/ Download
    \/ DownloadStalls
    \/ VerifyExists
    \/ VerifySize
    \/ VerifyType
    \/ VerifyGzip
    \/ Extract
    \/ EnsureProjectDir
    \/ Backup
    \/ StopApp
    \/ ClearProject
    \/ CopyFiles
    \/ InstallDeps
    \/ Migrate
    \/ StartApp
    \/ HealthCheck
    \/ Finish
    \/ Tick

Spec == Init /\ [][Next]_vars

\* bash runs the next command of main() as soon as the command before it has
\* returned: a step that can be taken is taken.
FairSpec == Spec /\ WF_vars(Next)

\* ---------------------------------------------------------------- properties
\* The event e is among the commands this run has executed.
Has(e) == \E i \in 1..Len(events) : events[i] = e

\* Some event of the set as was executed before every event of the set bs
\* that was executed.
Before(as, bs) ==
    \A j \in 1..Len(events) :
        events[j] \in bs => \E i \in 1..(j - 1) : events[i] \in as

\* The last command this run has executed.
LastEvent == IF events = <<>> THEN "" ELSE events[Len(events)]

\* tar was asked to extract the archive.
ExtractionAttempted == Has("tar_x") \/ Has("tar_x_failed")

\* C1: after a run has ended, however it ended (completion, an explicit
\* failure exit, a command failing under `set -e`), the scratch directory and
\* all it held (the fetched file, the extraction) no longer exist.  Runs do
\* not overlap here, and `rm -rf "$TEMP_DIR"` is taken to succeed.
C1_ScratchGoneAfterExit ==
    pc = "done" => ~tmpExists /\ dl = NoFile /\ ~extracted.exists

\* A run that had fetched and unpacked the archive was ended by `set -e`.
C1_Witness ==
    /\ pc = "done"
    /\ exitStatus = 2
    /\ Has("tar_x")
    /\ ~tmpExists

\* C2 as amended: tar is asked to extract only after the existence check, the
\* size check and the type check have passed in this order on a file that
\* meets them, and after the gzip integrity check, which has either passed on
\* an intact stream or was skipped because gzip is not installed; a failed
\* check is the last thing its run does.
C2_ExtractionAfterChecks ==
    /\ pc = "extract" \/ ExtractionAttempted =>
            /\ Has("gzip_ok") \/ Has("gzip_skipped")
            /\ ~Has("gzip_failed")
            /\ Before({"type_ok"}, {"gzip_ok", "gzip_skipped"})
            /\ Before({"size_ok"}, {"type_ok"})
            /\ Before({"exists_ok"}, {"size_ok"})
            /\ Before({"gzip_ok", "gzip_skipped"}, {"tar_x", "tar_x_failed"})
    /\ pc = "extract" =>
            /\ dl # NoFile
            /\ dl.size >= MinFileSize
            /\ FILE_SIZE >= MinFileSize
            /\ \E i \in 1..Len(FILE_TYPE) : FILE_TYPE[i] \in {"gzip", "compressed"}
            /\ Has("gzip_ok") => GzipIntact(dl)
    /\ Has("exists_failed") \/ Has("size_failed") \/ Has("type_failed") \/ Has("gzip_failed") =>
            /\ pc = "done"
            /\ exitStatus # 0
            /\ LastEvent \in {"exists_failed", "size_failed", "type_failed", "gzip_failed"}

\* The archive was extracted on a host without gzip: no integrity check ran.
C2_Witness == Has("tar_x") /\ Has("gzip_skipped") /\ pc = "project_dir"

\* C2 as stated: tar is asked to extract only after the size check, the type
\* check and the gzip integrity check have all run and passed, in this order.
C2_Original ==
    pc = "extract" \/ ExtractionAttempted =>
        /\ Has("gzip_ok")
        /\ Before({"type_ok"}, {"gzip_ok"})
        /\ Before({"size_ok"}, {"type_ok"})

\* C3: a run whose fetched file is smaller than 1024 bytes ends with the
\* too-small failure (exit status 1) right at the size check: nothing is
\* extracted, backed up, stopped or installed, and no later stage ever works
\* on a file below 1024 bytes.
C3_SmallFileRejected ==
    /\ FILE_SIZE # -1 /\ FILE_SIZE < MinFileSize =>
            /\ pc = "done"
            /\ exitStatus = 1
            /\ errorMsg = "too_small"
            /\ LastEvent = "size_failed"
            /\ ~ExtractionAttempted
            /\ EXTRACTED_DIR = <<>>
    /\ dl # NoFile /\ dl.size < MinFileSize => pc \in {"verify_exists", "verify_size"}

\* A file of 1023 bytes was fetched and the run has ended.
C3_Witness ==
    /\ pc = "done"
    /\ FILE_SIZE = MinFileSize - 1
    /\ errorMsg = "too_small"

\* C4 as stated: a run whose fetched file is not described as gzip data ends
\* with the wrong-type failure before any extraction.
C4_Original ==
    FILE_TYPE # <<>> /\ FILE_TYPE[1] # "gzip" =>
        /\ pc = "done"
        /\ exitStatus = 1
        /\ errorMsg = "wrong_type"
        /\ ~ExtractionAttempted

\* The content root as the specification resolves it: the single directory
\* D when the extraction holds exactly one directory, else the extraction
\* directory.
ResolvedRoot(top) ==
    IF Cardinality(top) = 1 /\ top \subseteq DirNames
    THEN <<"extracted", CHOOSE d \in top : TRUE>>
    ELSE <<"extracted">>

\* C5 as stated: after a successful extraction the content root is the single
\* directory D when the extraction directory holds exactly one directory, and
\* the extraction directory itself otherwise.
C5_Original ==
    extracted.exists => EXTRACTED_DIR = ResolvedRoot(extracted.top)

Supervisors == {"pm2", "systemd", "compose"}

\* What the stop stage records: no supervisor matched, a stop command
\* succeeded, a stop command failed.
StopEvents ==
    {"stop_none", "stop_pm2", "stop_systemd", "stop_compose", "stop_failed_pm2",
     "stop_failed_systemd", "stop_failed_compose"}

\* The stop stage of this run has run (with or without a supervisor to stop).
StopStageRan == \E i \in 1..Len(events) : events[i] \in StopEvents

\* The commands that delete or write entries of the live directory.
LiveWrites == {"rm_live", "rm_live_failed", "cp", "cp_failed", "npm_install",
               "npm_install_failed"}

\* C6 as amended: the live directory is modified only after the stop stage
\* of the run has run, and while it is modified the supervisor whose stop
\* command succeeded runs no instance of the application; an instance whose
\* stop command failed, or that the stop stage did not match, may still run.
C6_ModifiedAfterStopStage ==
    /\ pc \in {"clear", "copy", "deps", "migrate"} =>
            /\ StopStageRan
            /\ \A sup \in Supervisors : Has("stop_" \o sup) => sup \notin procs
    /\ Before(StopEvents, LiveWrites)

\* pm2 stopped the application and the live directory has been emptied.
C6_Witness ==
    /\ pc = "copy"
    /\ Has("stop_pm2")
    /\ Has("rm_live")
    /\ procs = {}

\* C6 as stated: when the install stage is about to delete or write entries
\* of the live directory, no instance of the application is running.
C6_Original == pc \in {"clear", "copy", "deps"} => procs = {}

\* C7 as stated: when a copy fails, of the visible or of the hidden entries,
\* the run ends with the install failure and the start stage never runs.
C7_Original ==
    Has("cp_failed") \/ Has("cp_hidden_failed") =>
        /\ pc = "done"
        /\ exitStatus = 1
        /\ errorMsg = "copy_failed"
        /\ ~Has("start_none")
        /\ \A sup \in Supervisors : ~Has("start_" \o sup) /\ ~Has("start_failed_" \o sup)

\* C8 as stated: a failure in the backup stage (creating the backup
\* directory, writing the archive, pruning) is only a warning: the run goes
\* on to the stop stage.
C8_Original ==
    /\ pc = "done"
    /\ Has("mkdir_backup_failed") \/ Has("tar_c_failed") \/ Has("prune_failed")
    => StopStageRan

\* The ids of the archives of a sequence.
Ids(seq) == {seq[i].id : i \in 1..Len(seq)}

\* The n greatest of a set of ids.
Newest(ids, n) == {c \in ids : Cardinality({d \in ids : d > c}) < n}

\* The backup stage of this run is over.
BackupStageRan ==
    Has("prune") \/ Has("prune_failed") \/ Has("mkdir_backup_failed") \/ Has("no_backup")

\* C9 as amended: after a backup stage whose prune step succeeded at most
\* KeepBackups archives exist; the archives present are at all times the most
\* recently written ones, newest first; and once KeepBackups archives have
\* been written under distinct names, exactly KeepBackups remain after each
\* successful prune.
C9_RetentionAfterPrune ==
    /\ Has("prune") => Len(backups) <= KeepBackups
    /\ Ids(backups) = Newest(created, Len(backups))
    /\ \A i \in 1..Len(backups) : \A j \in (i + 1)..Len(backups) :
            backups[i].id > backups[j].id
    /\ Has("prune") /\ Cardinality(created) >= KeepBackups => Len(backups) = KeepBackups

\* A prune has removed the oldest archive.
C9_Witness ==
    /\ Has("prune")
    /\ Cardinality(created) > KeepBackups
    /\ Len(backups) = KeepBackups
    /\ Ids(backups) # created

\* C9 as stated: after the backup stage of every run at most KeepBackups
\* archives exist, and after KeepBackups + k runs that each found a non-empty
\* live directory exactly KeepBackups archives exist, the most recent ones.
C9_Original ==
    BackupStageRan =>
        /\ Len(backups) <= KeepBackups
        /\ nonEmptyRuns >= KeepBackups =>
               /\ Len(backups) = KeepBackups
               /\ Ids(backups) = Newest(created, KeepBackups)

\* C10 as stated: a supervisor start or restart command that fails is only a
\* warning: the run goes on to the health check and ends with status 0.
C10_Original ==
    /\ pc = "done"
    /\ \E sup \in Supervisors : Has("start_failed_" \o sup)
    => exitStatus = 0 /\ Has("sleep")

\* No probe of the start stage matches: pm2 is not installed, systemd knows
\* no unit of the application, the live directory holds no compose file.
NoCapability ==
    ~pm2Installed /\ ~unitExists /\ "docker-compose.yml" \notin live

\* The copy and the dependency installation of this run have succeeded.
Installed == Has("cp") /\ ~Has("npm_install_failed")

\* C11: when no probe of the start stage matches and the stages up to the
\* installation have succeeded, the start stage only warns that the
\* application must be started by hand, and the run goes on through the
\* health check and the cleanup to exit status 0.
C11_NoSupervisorStillSucceeds ==
    /\ NoCapability /\ Installed /\ pc \in {"health", "finish", "done"} => Has("start_none")
    /\ NoCapability /\ Installed /\ pc = "done" =>
            /\ exitStatus = 0
            /\ Has("sleep")
            /\ LastEvent = "cleanup"
    /\ Has("start_none") => NoCapability /\ pc \in {"health", "finish", "done"}

\* A run on a host without supervisor has installed the release and ended.
C11_Witness ==
    /\ pc = "done"
    /\ Has("start_none")
    /\ Has("cp")
    /\ exitStatus = 0

\* The start stage of this run has run.
StartStageRan ==
    \E i \in 1..Len(events) :
        events[i] \in {"start_none", "start_pm2", "start_systemd", "start_compose",
                       "start_failed_pm2", "start_failed_systemd", "start_failed_compose"}

\* C12 as stated: when the installed package.json declares a build script,
\* the build runs after the dependency installation and before the start
\* stage (and its failure ends the run before any start command).
C12_Original ==
    /\ "package.json" \in live
    /\ "build" \in liveScripts
    /\ pc = "start" \/ StartStageRan
    => /\ Has("npm_build")
       /\ Before({"npm_install"}, {"npm_build"})

StartFailures == {"start_failed_pm2", "start_failed_systemd", "start_failed_compose"}

\* C13: a migration that fails is only a warning: the run goes on to the
\* start stage, and it ends with status 0 unless a start command fails.
C13_MigrationFailureIsWarning ==
    Has("migrate_failed") =>
        /\ pc = "start" \/ StartStageRan
        /\ Before({"migrate_failed"}, {"sleep", "cleanup"} \cup StartFailures)
        /\ pc = "done" => exitStatus = 0 \/ LastEvent \in StartFailures

\* A run whose migration failed has ended with status 0.
C13_Witness ==
    /\ pc = "done"
    /\ Has("migrate_failed")
    /\ exitStatus = 0
    /\ LastEvent = "cleanup"

\* C14: the health check never changes the outcome of a run.  A run that has
\* reached the health check goes on to the cleanup and ends with status 0,
\* whether a port answers, none does, or nothing can be probed; the ports
\* are probed in their order and no port is probed after one has answered.
C14_HealthCheckNeverFails ==
    /\ Has("sleep") =>
            /\ pc \in {"finish", "done"}
            /\ pc = "done" => exitStatus = 0 /\ LastEvent = "cleanup"
            /\ HEALTH_CHECK_PASSED \/ probed \in {<<>>, Ports}
    /\ \A i \in 1..Len(probed) :
            /\ i <= Len(Ports)
            /\ probed[i] = Ports[i]
            /\ i < Len(probed) => probed[i] \notin answering
    /\ HEALTH_CHECK_PASSED <=> probed # <<>> /\ probed[Len(probed)] \in answering

\* The second port answered: the run has ended with status 0 and the third
\* and fourth port were not probed.
C14_Witness ==
    /\ pc = "done"
    /\ exitStatus = 0
    /\ HEALTH_CHECK_PASSED
    /\ probed = <<3000, 8080>>
    /\ 5000 \in answering

\* What the run records when an error that the specification classes as
\* fatal occurs: transport, validation, extraction, copy and dependency
\* installation errors.
FatalEvents ==
    {"no_transport", "fetch_failed", "exists_failed", "size_failed", "type_failed",
     "gzip_failed", "tar_x_failed", "cp_failed", "cp_hidden_failed",
     "npm_install_failed"}

\* C15 as stated: a run ends with status 0 exactly when it went through all
\* its stages without fatal error; a fatal error is the last thing a run does
\* before its cleanup, and the run then ends with a non-zero status.
C15_Original ==
    /\ pc = "done" /\ exitStatus = 0 =>
            /\ LastEvent = "cleanup"
            /\ \A i \in 1..Len(events) : events[i] \notin FatalEvents
    /\ pc = "done" /\ LastEvent = "cleanup" => exitStatus = 0
    /\ \A i \in 1..Len(events) :
            events[i] \in FatalEvents =>
                /\ i = Len(events)
                /\ pc = "done"
                /\ exitStatus > 0

\* C16 as stated: when the transport reports failure, or neither curl nor
\* wget is installed, the run ends in the fetch stage with the download
\* failure and a non-zero status, and no validation is done, with or without
\* verbose logging to a log file.
C16_Original ==
    Has("fetch_failed") \/ Has("no_transport") =>
        /\ pc = "done"
        /\ exitStatus = 1
        /\ errorMsg \in {"download_failed", "no_transport"}
        /\ LastEvent \in {"fetch_failed", "no_transport"}

\* ------------------------------------------------- concurrent deploy processes
\* index.js spawns one deploy process for each accepted delivery and does not
\* wait for it: the processes run side by side, each going through the stages
\* of main() on the same $TEMP_DIR (line 15, a fixed path) and the same
\* $PROJECT_DIR.  A stage name is the stage a process executes next.

\* Number of deploy processes the server spawns.
MaxDeploys == 3

\* index.js lines 97-109 and 145: the handler spawns the script and answers;
\* nothing looks at the deploy processes that are still running.
SpawnDeploy ==
    /\ Len(deploys) < MaxDeploys
    /\ deploys' = Append(deploys, "mkdir_tmp")
    /\ UNCHANGED <<deployVars, handled, scratch, liveFrom>>

\* The stage of process d becomes st.
Goto(d, st) == deploys' = [deploys EXCEPT ![d] = st]

\* `cleanup` (lines 73-79), alone or before `exit 1`, or by the EXIT trap.
Removed == [exists |-> cleanup(scratch.exists), file |-> 0, extracted |-> 0]

\* Line 101: `mkdir -p "$TEMP_DIR"` (no error when the directory exists).
DeployMkdir(d) ==
    /\ deploys[d] = "mkdir_tmp"
    /\ scratch' = [scratch EXCEPT !.exists = TRUE]
    /\ Goto(d, "download")
    /\ UNCHANGED <<deployVars, handled, liveFrom>>

\* Lines 103-138: the transport writes $TEMP_DIR/release.tar.gz, replacing
\* the file that is there; it fails when the directory is gone, and the
\* failure is seen or masked by the pipeline into tee.
DeployDownload(d) ==
    /\ deploys[d] = "download"
    /\ IF scratch.exists
       THEN /\ scratch' = [scratch EXCEPT !.file = d]
            /\ Goto(d, "validate")
       ELSE /\ scratch' = scratch
            /\ Goto(d, IF TransportStatus(FALSE) THEN "validate" ELSE "done")
    /\ UNCHANGED <<deployVars, handled, liveFrom>>

\* Lines 140-203: the checks read $TEMP_DIR/release.tar.gz, whoever wrote it.
DeployValidate(d) ==
    /\ deploys[d] = "validate"
    /\ IF scratch.exists /\ scratch.file # 0
       THEN /\ scratch' = scratch
            /\ Goto(d, "extract")
       ELSE /\ scratch' = Removed
            /\ Goto(d, "done")
    /\ UNCHANGED <<deployVars, handled, liveFrom>>

\* Lines 205-266: `mkdir "$TEMP_DIR/extracted"` fails when the directory is
\* there already or $TEMP_DIR is gone, tar fails when the file is gone; then
\* `set -e` ends the process and the EXIT trap removes $TEMP_DIR.
DeployExtract(d) ==
    /\ deploys[d] = "extract"
    /\ IF scratch.exists /\ scratch.extracted = 0 /\ scratch.file # 0
       THEN /\ scratch' = [scratch EXCEPT !.extracted = scratch.file]
            /\ Goto(d, "stop")
       ELSE /\ scratch' = Removed
            /\ Goto(d, "done")
    /\ UNCHANGED <<deployVars, handled, liveFrom>>

\* Lines 268-296: project directory, backup, stop of the application.
DeployStop(d) ==
    /\ deploys[d] = "stop"
    /\ Goto(d, "clear")
    /\ UNCHANGED <<deployVars, handled, scratch, liveFrom>>

\* Lines 298-301: the live directory is emptied.
DeployClear(d) ==
    /\ deploys[d] = "clear"
    /\ liveFrom' = -1
    /\ Goto(d, "copy")
    /\ UNCHANGED <<deployVars, handled, scratch>>

\* Lines 304-316: `cp -r "$EXTRACTED_DIR"/*` copies what is in extracted/, and
\* fails (cleanup; exit 1) when it is gone.
DeployCopy(d) ==
    /\ deploys[d] = "copy"
    /\ IF scratch.exists /\ scratch.extracted # 0
       THEN /\ liveFrom' = scratch.extracted
            /\ scratch' = scratch
            /\ Goto(d, "start")
       ELSE /\ liveFrom' = liveFrom
            /\ scratch' = Removed
            /\ Goto(d, "done")
    /\ UNCHANGED <<deployVars, handled>>

\* Lines 324-394: dependencies, migration, start, health check.
DeployStart(d) ==
    /\ deploys[d] = "start"
    /\ Goto(d, "cleanup")
    /\ UNCHANGED <<deployVars, handled, scratch, liveFrom>>

\* Lines 396-404: cleanup and the end of main.
DeployFinish(d) ==
    /\ deploys[d] = "cleanup"
    /\ scratch' = Removed
    /\ Goto(d, "done")
    /\ UNCHANGED <<deployVars, handled, liveFrom>>

\* The host of the concurrent processes: nothing deployed, no supervisor.
BareHost ==
    /\ ~pm2Installed /\ ~unitExists
    /\ procs = {}
    /\ live = {}
    /\ ~projExists

ConcInit == Init /\ BareHost

ConcNext ==
    \/ SpawnDeploy
    \/ \E d \in 1..Len(deploys) : DeployMkdir(d)
    \/ \E d \in 1..Len(deploys) : DeployDownload(d)
    \/ \E d \in 1..Len(deploys) : DeployValidate(d)
    \/ \E d \in 1..Len(deploys) : DeployExtract(d)
    \/ \E d \in 1..Len(deploys) : DeployStop(d)
    \/ \E d \in 1..Len(deploys) : DeployClear(d)
    \/ \E d \in 1..Len(deploys) : DeployCopy(d)
    \/ \E d \in 1..Len(deploys) : DeployStart(d)
    \/ \E d \in 1..Len(deploys) : DeployFinish(d)

ConcSpec == ConcInit /\ [][ConcNext]_vars

\* C17 as stated: the scratch workspaces of runs that overlap are disjoint:
\* from its download to its cleanup a run finds in its workspace the archive
\* it fetched, and after extraction what it unpacked; no other run replaces
\* or removes them.
C17_Original ==
    \A d \in 1..Len(deploys) :
        /\ deploys[d] \in {"validate", "extract"} => scratch.exists /\ scratch.file = d
        /\ deploys[d] \in {"stop", "clear", "copy"} => scratch.exists /\ scratch.extracted = d

\* C18 as stated: at most one run at a time is between the beginning of its
\* stop stage and the end of its start stage.
C18_Original ==
    Cardinality({d \in 1..Len(deploys) : deploys[d] \in {"clear", "copy", "start"}}) <= 1

\* ------------------------------------------------------- the webhook server
\* index.js: one POST handler.  A request carries the signature header, the
\* event header and a JSON body; the body is kept as its parsed content and
\* the way its bytes were written (compact, as JSON.stringify writes it, or
\* with other spacing).

\* Number of requests the server answers.
MaxDeliveries == 1

\* Line 10: process.env.SECRET || 'test'.
WEBHOOK_SECRET == "test"

\* A header or property that is not there.
Undefined == "undefined"

\* crypto.createHmac('sha256', key).update(text).digest('hex') with the
\* 'sha256=' prefix: a value that depends on the key and on every byte.
Hmac(key, text) == <<"sha256=", key, text>>

\* No signature header.
NoSignature == <<>>

\* A header of another length than 'sha256=' and 64 hex digits.
ShortSignature == <<"sha256=", "abc">>

\* The bytes of a body: its content written in some form.
Bytes(form, content) == [form |-> form, content |-> content]

\* bodyParser.json() (line 14): req.body is the content of the bytes.
Parse(raw) == raw.content

\* JSON.stringify: always the compact form.
Stringify(content) == Bytes("compact", content)

Assets ==
    { <<>>,
      <<[ext |-> ".zip", browser_download_url |-> "https://host/app.zip"]>>,
      <<[ext |-> ".zip", browser_download_url |-> "https://host/app.zip"],
        [ext |-> ".tgz", browser_download_url |-> "https://host/app.tgz"]>> }

NoRelease == [present |-> FALSE, tag_name |-> Undefined, assets |-> <<>>, tarball_url |-> Undefined]

Releases ==
    {NoRelease} \cup
    [present : {TRUE}, tag_name : {"v1", Undefined}, assets : Assets,
     tarball_url : {"https://host/tarball/v1", Undefined}]

Contents == [action : {"published", "created"}, release : Releases]

Signatures(raw) ==
    {NoSignature, ShortSignature}
        \cup {Hmac(k, Bytes(f, raw.content)) : k \in {WEBHOOK_SECRET, "other"}, f \in {"compact", "spaced"}}

Requests ==
    UNION { [signature : Signatures(Bytes(f, c)), event : {"release", "push"}, raw : {Bytes(f, c)}] :
            f \in {"compact", "spaced"}, c \in Contents }

\* Lines 18-27.  crypto.timingSafeEqual throws when the two buffers differ in
\* length; the exception leaves the handler.
verifySignature(req) ==
    IF req.signature = NoSignature THEN "false"
    ELSE LET digest == Hmac(WEBHOOK_SECRET, Stringify(Parse(req.raw)))
         IN  IF Len(req.signature) # Len(digest) THEN "throw"
             ELSE IF req.signature = digest THEN "true"
             ELSE "false"

\* Lines 73-75: release.assets.find(...), the first .tar.gz or .tgz asset.
IsTarball(asset) == asset.ext \in {".tar.gz", ".tgz"}

tarballAsset(assets) ==
    LET is == {i \in 1..Len(assets) : IsTarball(assets[i])}
    IN  IF is = {} THEN <<>>
        ELSE <<assets[CHOOSE i \in is : \A j \in is : i <= j]>>

\* Lines 59-89.
downloadUrl(release) ==
    IF Len(release.assets) > 0 /\ tarballAsset(release.assets) # <<>>
    THEN tarballAsset(release.assets)[1].browser_download_url
    ELSE release.tarball_url

\* Lines 29-146: the answer to one request, and the arguments of the deploy
\* process it spawns (<<>> when it spawns none).  An exception that leaves
\* the handler is answered 500 by Express.
Answer(status, args) == [status |-> status, args |-> args]

Handle(req) ==
    LET body == Parse(req.raw)
        verified == verifySignature(req)
    IN  IF verified = "throw" THEN Answer(500, <<>>)
        ELSE IF verified = "false" THEN Answer(401, <<>>)
        ELSE IF req.event = "release" /\ body.action = "published"
        THEN IF ~body.release.present THEN Answer(500, <<>>)   \* release.body of undefined
             ELSE IF downloadUrl(body.release) = Undefined THEN Answer(500, <<>>)
             ELSE Answer(200, <<downloadUrl(body.release), body.release.tag_name>>)
        ELSE Answer(200, <<>>)

\* The server answers one request; the deploy process it spawned, if any,
\* runs on its own from then on.
Deliver ==
    /\ Len(handled) < MaxDeliveries
    /\ \E req \in Requests :
        LET a == Handle(req)
        IN  /\ handled' = Append(handled, [req |-> req, status |-> a.status, args |-> a.args])
            /\ deploys' = IF a.args # <<>> THEN Append(deploys, "mkdir_tmp") ELSE deploys
    /\ UNCHANGED <<deployVars, scratch, liveFrom>>

\* Lines 123-131: the handler of 'close' logs the exit code of a deploy.
DeployClosed ==
    /\ \E d \in 1..Len(deploys) :
        /\ deploys[d] # "done"
        /\ Goto(d, "done")
    /\ UNCHANGED <<deployVars, handled, scratch, liveFrom>>

WebInit == Init /\ BareHost

WebNext ==
    \/ Deliver
    \/ DeployClosed

WebSpec == WebInit /\ [][WebNext]_vars

\* The signature header equals the HMAC of the body, as sent or as
\* JSON.stringify writes it again.
SignatureOfBody(req) ==
    \E f \in {req.raw.form, "compact"} :
        req.signature = Hmac(WEBHOOK_SECRET, Bytes(f, req.raw.content))

\* C19 as stated: a request whose signature header is missing or is not the
\* HMAC-SHA256 of the body, whatever its length, is answered 401 and spawns
\* nothing.
C19_Original ==
    \A i \in 1..Len(handled) :
        ~SignatureOfBody(handled[i].req)
            => handled[i].status = 401 /\ handled[i].args = <<>>

\* The request is a published release with a download URL.
Deployable(req) ==
    /\ req.event = "release"
    /\ req.raw.content.action = "published"
    /\ req.raw.content.release.present
    /\ downloadUrl(req.raw.content.release) # Undefined

\* C20 as stated: a request spawns the script if and only if its signature
\* is the one the server computes, it is a published release and a download
\* URL is available, and then once; every other request with that
\* signature is answered 200 and spawns nothing.
C20_Original ==
    /\ \A i \in 1..Len(handled) :
        LET h == handled[i]
            valid == h.req.signature = Hmac(WEBHOOK_SECRET, Stringify(Parse(h.req.raw)))
        IN  /\ h.args # <<>> <=> valid /\ Deployable(h.req)
            /\ valid /\ ~Deployable(h.req) => h.status = 200 /\ h.args = <<>>
    /\ Len(deploys) = Cardinality({i \in 1..Len(handled) : handled[i].args # <<>>})

\* ---------------------------------------------------------------- C21..C28
\* C21 as stated: every run that has started its download eventually ends,
\* with either outcome, and the scratch directory is then gone, even when the
\* download never completes.
C21_Original == [](pc = "download" => <>(pc = "done" /\ ~tmpExists))

\* ------------------------------------------- the install stage, run again
\* The clear and copy of lines 298-316 applied repeatedly to one live
\* directory with one content root.

\* Number of times the files are installed.
MaxInstalls == 2

\* The archives a run can have unpacked when it reaches the install stage.
Installable == {f \in Fetchable : TarReads(f) /\ ~TooSmall(f.size) /\ GzipIntact(f)}

\* A run is about to clear the live directory.
InstallInit ==
    /\ pc = "clear"
    /\ run = 1
    /\ TARBALL_URL = "https://host/app.tar.gz"
    /\ TAG_NAME = "v1"
    /\ USE_LOG_FILE \in BOOLEAN
    /\ tmpExists = TRUE
    /\ \E f \in Installable :
        /\ dl = f
        /\ extracted = [exists |-> TRUE, top |-> f.top, inner |-> f.inner, scripts |-> f.scripts]
        /\ EXTRACTED_DIR = ContentRoot(f.top)
        /\ FILE_SIZE = f.size
        /\ FILE_TYPE = Describe(f.kind)
    /\ exitStatus = -1
    /\ errorMsg = "none"
    /\ events = <<>>
    /\ probed = <<>>
    /\ answering = {}
    /\ HEALTH_CHECK_PASSED = FALSE
    /\ projExists = TRUE
    /\ live \in {{}, {"index.js"}, OldContent, ComposeContent}
    /\ liveScripts = {}
    /\ backups = <<>>
    /\ created = {}
    /\ nonEmptyRuns = 0
    /\ sameSecond = FALSE
    /\ pm2Installed = FALSE
    /\ pm2Listed = FALSE
    /\ unitExists = FALSE
    /\ procs = {}
    /\ installed = <<>>
    /\ handled = <<>>
    /\ deploys = <<>>
    /\ scratch = NoScratch
    /\ liveFrom = 0

\* The files have been copied; the same content root is installed once more.
Reinstall ==
    /\ pc = "deps"
    /\ Len(installed) < MaxInstalls
    /\ pc' = "clear"
    /\ UNCHANGED <<installed, webVars, run, runVars, scratchVars, EXTRACTED_DIR, exitStatus,
                   errorMsg, events, healthVars, hostVars>>

InstallNext ==
    \/ ClearProject
    \/ CopyFiles
    \/ Reinstall

InstallSpec == InstallInit /\ [][InstallNext]_vars

\* C22: installing the same content root again into the same live directory,
\* with the copy commands ending as they did the time before (all entries
\* copied, or the hidden ones silently not), leaves the live directory with
\* the contents it had after the time before.
C22_InstallIdempotent ==
    \A i \in 1..Len(installed) : \A j \in 1..Len(installed) :
        installed[i].hidden = installed[j].hidden => installed[i].live = installed[j].live

\* A content root with a hidden entry was installed twice into a live
\* directory that held an earlier deployment at first.
C22_Witness ==
    /\ Len(installed) = 2
    /\ installed[1].hidden = {".env"}
    /\ installed[2] = installed[1]
    /\ "index.js" \in installed[2].live
    /\ live = installed[2].live

\* C23 as stated: when a run has ended with status 0, the copy of files had
\* left in the live directory exactly the entries of the content root,
\* visible and hidden: none of the previous deployment, none missing.
C23_Original ==
    pc = "done" /\ exitStatus = 0 =>
        /\ installed # <<>>
        /\ \A i \in 1..Len(installed) : installed[i].live = installed[i].root

\* The place of each recorded command in main(): the stages in the order
\* fetch, validate, extract, backup, stop, install (clear, copy,
\* dependencies, build, migrate), start, health check, cleanup.
Rank(e) ==
    CASE e \in {"mkdir_tmp", "mkdir_tmp_failed"} -> 0
      [] e \in {"fetch", "fetch_failed", "no_transport"} -> 10
      [] e \in {"exists_ok", "exists_failed"} -> 20
      [] e \in {"size_ok", "size_failed"} -> 21
      [] e \in {"type_ok", "type_failed"} -> 22
      [] e \in {"gzip_ok", "gzip_skipped", "gzip_failed"} -> 23
      [] e \in {"tar_x", "tar_x_failed"} -> 30
      [] e \in {"mkdir_project", "mkdir_project_failed"} -> 35
      [] e \in {"mkdir_backup", "mkdir_backup_failed", "no_backup"} -> 40
      [] e \in {"tar_c", "tar_c_failed"} -> 41
      [] e \in {"prune", "prune_failed"} -> 42
      [] e \in StopEvents -> 50
      [] e \in {"rm_live", "rm_live_failed"} -> 60
      [] e \in {"cp", "cp_failed"} -> 61
      [] e \in {"cp_hidden", "cp_hidden_failed"} -> 62
      [] e \in {"no_package_json", "npm_install", "npm_install_failed"} -> 70
      [] e \in {"npm_build", "npm_build_failed"} -> 75
      [] e \in {"migrate", "migrate_failed"} -> 80
      [] e \in {"start_none", "start_pm2", "start_systemd", "start_compose"} \cup StartFailures -> 90
      [] e = "sleep" -> 100
      [] e \in {"health_passed", "health_unverified"} -> 101
      [] e = "cleanup" -> 110

\* Every command a run can record.
EventNames ==
    {"mkdir_tmp", "mkdir_tmp_failed", "fetch", "fetch_failed", "no_transport", "exists_ok",
     "exists_failed", "size_ok", "size_failed", "type_ok", "type_failed", "gzip_ok",
     "gzip_skipped", "gzip_failed", "tar_x", "tar_x_failed", "mkdir_project",
     "mkdir_project_failed", "mkdir_backup", "mkdir_backup_failed", "no_backup", "tar_c",
     "tar_c_failed", "prune", "prune_failed", "rm_live", "rm_live_failed", "cp", "cp_failed",
     "cp_hidden", "cp_hidden_failed", "no_package_json", "npm_install", "npm_install_failed",
     "npm_build", "npm_build_failed", "migrate", "migrate_failed", "start_none", "start_pm2",
     "start_systemd", "start_compose", "sleep", "health_passed", "health_unverified",
     "cleanup"} \cup StopEvents \cup StartFailures

\* Rank as a table.
RankOf == [e \in EventNames |-> Rank(e)]

\* The place of the stage main() is at.
StageRank(stage) ==
    CASE stage \in {"download", "stalled"} -> 10
      [] stage = "verify_exists" -> 20
      [] stage = "verify_size" -> 21
      [] stage = "verify_type" -> 22
      [] stage = "verify_gzip" -> 23
      [] stage = "extract" -> 30
      [] stage = "project_dir" -> 35
      [] stage = "backup" -> 40
      [] stage = "stop" -> 50
      [] stage = "clear" -> 60
      [] stage = "copy" -> 61
      [] stage = "deps" -> 70
      [] stage = "migrate" -> 80
      [] stage = "start" -> 90
      [] stage = "health" -> 100
      [] stage = "finish" -> 110
      [] OTHER -> 111

\* What the backup stage records once it has decided: an archive was
\* written, writing it failed, or the live directory was empty.
BackupAttempts == {"tar_c", "tar_c_failed", "no_backup"}

\* C24: within one run the commands are executed in the order of the stages
\* fetch, validate (existence, size, type, gzip), extract, backup, stop,
\* install (clear, copy, dependencies, build, migrate), start, health check,
\* cleanup, each at most once; a stage begins only when all commands of the
\* earlier stages are over; and the backup stage (an archive written or
\* attempted, or nothing to archive) and the stop stage both come before
\* the first deletion or write in the live directory.
C24_StagesInOrder ==
    /\ \A i \in 1..Len(events) : events[i] \in EventNames
    /\ \A i \in 1..(Len(events) - 1) : RankOf[events[i]] < RankOf[events[i + 1]]
    /\ events # <<>> /\ pc \notin {"done", "stalled"} => RankOf[LastEvent] < StageRank(pc)
    /\ Before(BackupAttempts, LiveWrites)
    /\ Before(StopEvents, LiveWrites)

\* A run has gone through every stage and ended with status 0.
C24_Witness ==
    /\ pc = "done"
    /\ exitStatus = 0
    /\ Has("fetch") /\ Has("gzip_ok") /\ Has("tar_x") /\ Has("tar_c") /\ Has("stop_pm2")
    /\ Has("rm_live") /\ Has("cp_hidden") /\ Has("npm_install") /\ Has("migrate")
    /\ Has("start_pm2") /\ Has("health_passed")
    /\ LastEvent = "cleanup"

\* The archive this run has written, complete, is in the backup directory
\* and holds the entries dir.
BackedUp(dir) ==
    \E i \in 1..Len(backups) :
        /\ backups[i].id = KeepBackups + run
        /\ backups[i].complete
        /\ backups[i].content = dir

\* C25 as amended: when a run whose backup command succeeded is about to
\* delete the contents of a non-empty live directory, the archive it wrote
\* is in the backup directory and holds exactly those contents, and the
\* archive is still there while the run deletes and writes in the live
\* directory; a run whose backup command failed only warns and deletes
\* without such an archive.
C25_BackupBeforeDestruction ==
    /\ pc \in {"stop", "clear"} /\ Has("tar_c") => live # {} /\ BackedUp(live)
    /\ Has("tar_c") /\ (\E i \in 1..Len(events) : events[i] \in LiveWrites) =>
            \E i \in 1..Len(backups) : backups[i].id = KeepBackups + run /\ backups[i].complete
    /\ Has("rm_live") /\ ~Has("no_backup") => Has("tar_c") \/ Has("tar_c_failed")

\* The run archived the live directory, pruned an older archive and has
\* emptied the live directory.
C25_Witness ==
    /\ pc = "copy"
    /\ Has("tar_c")
    /\ Has("rm_live")
    /\ Len(backups) = KeepBackups
    /\ Cardinality(created) > KeepBackups
    /\ backups[1].id = KeepBackups + run
    /\ backups[1].content = OldContent

\* C25 as stated: whenever a run is about to delete the contents of a
\* non-empty live directory, a complete archive holding those contents is
\* in the backup directory.
C25_Original ==
    pc = "clear" /\ live # {} =>
        \E i \in 1..Len(backups) : backups[i].complete /\ backups[i].content = live

\* The run has failed in the copy of files or in the dependency installation.
InstallFailed == Has("cp_failed") \/ Has("npm_install_failed")

\* C26 as amended: a run that fails in the copy of files or in the
\* dependency installation ends there with status 1: it runs no start or
\* restart command and restores nothing, so the live directory stays as the
\* failed stage left it (after a failed copy without index.js and with no
\* completed copy, after a failed installation as the copy left it), and every
\* supervisor whose stop command succeeded still runs no instance; an
\* instance that the stop stage could not stop or did not match keeps running.
C26_NoRollback ==
    /\ InstallFailed =>
            /\ pc = "done"
            /\ exitStatus = 1
            /\ errorMsg \in {"copy_failed", "deps_failed"}
            /\ LastEvent \in {"cp_failed", "npm_install_failed"}
            /\ ~StartStageRan
            /\ \A sup \in Supervisors : Has("stop_" \o sup) => sup \notin procs
    /\ Has("cp_failed") => installed = <<>> /\ "index.js" \notin live
    /\ Has("npm_install_failed") =>
            /\ installed # <<>>
            /\ live = installed[Len(installed)].live

\* pm2 stopped the application and the dependency installation failed: the
\* run has ended, the new files are in place and nothing runs.
C26_Witness ==
    /\ pc = "done"
    /\ Has("stop_pm2")
    /\ Has("npm_install_failed")
    /\ procs = {}
    /\ "index.js" \in live
    /\ backups # <<>>

\* C26 as stated: a run that fails in the copy of files or in the dependency
\* installation runs no start command and leaves the application stopped.
C26_Original ==
    InstallFailed => pc = "done" /\ ~StartStageRan /\ procs = {}

\* The stages of argument validation, fetching, validating and extracting
\* ("idle" and "done": the script is about to be started).
EarlyStages ==
    {"idle", "done", "download", "stalled", "verify_exists", "verify_size", "verify_type",
     "verify_gzip", "extract"}

\* What a run records when one of these stages fails.
EarlyFailures ==
    {"mkdir_tmp_failed", "no_transport", "fetch_failed", "exists_failed", "size_failed",
     "type_failed", "gzip_failed", "tar_x_failed"}

\* The run has ended in one of these stages.
EarlyFailed ==
    /\ pc = "done"
    /\ events = <<>> \/ LastEvent \in EarlyFailures

\* The live directory, the backup archives and who runs the application.
hostState == <<projExists, live, liveScripts, backups, created, procs, pm2Listed>>

\* C27: a run that fails at argument validation or in the fetch, validate
\* or extract stage has executed no command of a later stage, and no step
\* of these stages changes the live directory, the backup archives or the
\* running state of the application: they are what they were before the run.
C27_EarlyFailureLeavesHost ==
    /\ [](EarlyFailed => \A i \in 1..Len(events) : RankOf[events[i]] <= RankOf["tar_x_failed"])
    /\ [][(pc \in EarlyStages) => (hostState' = hostState)]_vars

\* The extraction has failed on a host that runs an earlier deployment under
\* pm2 and holds its archives.
C27_Witness ==
    /\ pc = "done"
    /\ exitStatus = 2
    /\ LastEvent = "tar_x_failed"
    /\ live = OldContent
    /\ procs = {"pm2"}
    /\ Len(backups) = KeepBackups

\* C28 as stated: a run that stopped the application through a supervisor
\* and has run its start stage started it through that same supervisor.
C28_Original ==
    \A sup \in Supervisors :
        Has("stop_" \o sup) /\ StartStageRan =>
            Has("start_" \o sup) \/ Has("start_failed_" \o sup)

====
